---- MODULE Spec2Model ----
(***************************************************************************)
(* A model of drawr's cascade resolver (style.rs, css.rs, dom.rs) and of   *)
(* its block layout engine (layout.rs).                                    *)
(*                                                                         *)
(* Lengths are f32 pixel counts in the source.  The model stores a length  *)
(* as an integer count of half pixels: Px(n) is n whole pixels.  The one   *)
(* division the layout code makes (underflow / 2.0) ends up in the left    *)
(* and right margins and, through margin.left, in x, and nowhere else; so  *)
(* margin.left, margin.right and x of a Dimensions are counts of quarter   *)
(* pixels, in which the half of any count of half pixels is exact.         *)
(* Fine(h) is the count of quarter pixels of h half pixels.                *)
(* An Option<T> of the source is a sequence of length 0 (None) or 1        *)
(* (Some), which is what the source's `.iter()` on an Option walks.        *)
(***************************************************************************)
EXTENDS Integers, Sequences, FiniteSets, TLC

VARIABLES
    \* ---- cascade (style.rs) ----
    node,              \* the DOM node handed to style_tree
    stylesheet,        \* the parsed Stylesheet
    rules,             \* specified_values' local `rules`, after the sort
    specified_values,  \* the StyledNode's PropertyMap
    spc,               \* "start" | "styled"
    \* ---- width resolution (layout.rs, calculate_block_width) ----
    wstyle,            \* the specified values of the box's style node
    wcb,               \* the containing block
    wdims,             \* the box's dimensions
    wpc,               \* "start" | "done"
    \* ---- layout (layout.rs, layout_tree) ----
    styled,            \* the style tree, its nodes in pre-order
    viewport,          \* the containing block handed to layout_tree
    boxes,             \* the layout tree, its boxes in order of creation
    stack,             \* the layout_block calls in progress, innermost last
    trace,             \* per box, the layout states it has gone through
    failure,           \* the message of the fail! that ended the call, or ""
    lpc                \* "start" | "built" | "layout" | "done" | "failed"

cvars == <<node, stylesheet, rules, specified_values, spc>>
wvars == <<wstyle, wcb, wdims, wpc>>
lvars == <<styled, viewport, boxes, stack, trace, failure, lpc>>
vars == <<node, stylesheet, rules, specified_values, spc, wstyle, wcb, wdims, wpc,
          styled, viewport, boxes, stack, trace, failure, lpc>>

-----------------------------------------------------------------------------
(* css.rs: values                                                          *)

Px(n) == 2 * n

\* A count of half pixels as a count of quarter pixels.
Fine(h) == 2 * h

Keyword(s) == [t |-> "Keyword", s |-> s, f |-> 0, c |-> <<>>]
Length(f) == [t |-> "Length", s |-> "Px", f |-> f, c |-> <<>>]
Color(r, g, b, a) == [t |-> "Color", s |-> "", f |-> 0, c |-> <<r, g, b, a>>]

\* Value::to_px: the size of a length in px, or zero for non-lengths.
to_px(v) == IF v.t = "Length" THEN v.f ELSE 0

\* An Option<T>.
None == <<>>
Some(x) == <<x>>

\* The empty HashMap.
EmptyMap == <<>>

-----------------------------------------------------------------------------
(* css.rs: selectors; dom.rs: elements                                     *)

\* A SimpleSelector: tag_name and id are Option<String>, class a Vec<String>.
SimpleSelector(tag_name, id, class) == [tag_name |-> tag_name, id |-> id, class |-> class]

\* Selector::specificity: (ids, classes, tags).
specificity(selector) ==
    <<Len(selector.id), Len(selector.class), Len(selector.tag_name)>>

\* The derived Ord of the tuple (uint, uint, uint): lexicographic.
SpecLess(sa, sb) ==
    \/ sa[1] < sb[1]
    \/ sa[1] = sb[1] /\ sa[2] < sb[2]
    \/ sa[1] = sb[1] /\ sa[2] = sb[2] /\ sa[3] < sb[3]

\* An attribute value is modelled by its space-separated fields: "b c" is
\* <<"b", "c">> and "" is <<"">>, which is how str::split(' ') cuts it.
get_attribute(elem, key) ==
    IF key \in DOMAIN elem.attributes THEN Some(elem.attributes[key]) ELSE None

id(elem) == get_attribute(elem, "id")

\* The string whose split(' ') gives fields.
RECURSIVE string_from(_, _)
string_from(fields, k) ==
    IF k >= Len(fields) THEN fields[k]
    ELSE fields[k] \o " " \o string_from(fields, k + 1)

string_of(fields) == string_from(fields, 1)

classes(elem) ==
    LET a == get_attribute(elem, "class")
    IN  IF a = None THEN {} ELSE {a[1][i] : i \in 1..Len(a[1])}

-----------------------------------------------------------------------------
(* style.rs: matching and the cascade                                      *)

matches_simple_selector(elem, selector) ==
    /\ ~ \E i \in 1..Len(selector.tag_name) : elem.tag_name /= selector.tag_name[i]
    /\ ~ \E i \in 1..Len(selector.id) :
            \/ id(elem) = None
            \/ string_of(id(elem)[1]) /= selector.id[i]
    /\ ~ \E i \in 1..Len(selector.class) : selector.class[i] \notin classes(elem)

matches(elem, selector) == matches_simple_selector(elem, selector)

\* A match_rule that pairs the rule with the highest specificity among its
\* matching selectors.
match_rule_highest_specificity(elem, sheet, r) ==
    LET sels == sheet[r].selectors
        hits == {i \in 1..Len(sels) : matches(elem, sels[i])}
    IN  IF hits = {} THEN None
        ELSE LET best == CHOOSE i \in hits :
                             \A j \in hits :
                                 ~ SpecLess(specificity(sels[i]), specificity(sels[j]))
             IN  Some([specificity |-> specificity(sels[best]), rule |-> r])

\* match_rule: the first matching selector of rule number r pairs the rule
\* with its specificity.  A MatchedRule holds the rule by its place in the
\* stylesheet (a reference in the source).
match_rule(elem, sheet, r) ==
    LET sels == sheet[r].selectors
        hits == {i \in 1..Len(sels) : matches(elem, sels[i])}
    IN  IF hits = {} THEN None
        ELSE LET first == CHOOSE i \in hits : \A j \in hits : i <= j
             IN  Some([specificity |-> specificity(sels[first]), rule |-> r])

RECURSIVE matching_from(_, _, _)
matching_from(elem, sheet, r) ==
    IF r > Len(sheet) THEN <<>>
    ELSE match_rule(elem, sheet, r) \o matching_from(elem, sheet, r + 1)

\* matching_rules: filter_map over the rules, in stylesheet order.
matching_rules(elem, sheet) == matching_from(elem, sheet, 1)

\* A sort that is not stable: x goes before the elements equal to it.
RECURSIVE insert_sorted_unstable(_, _)
insert_sorted_unstable(xs, x) ==
    IF xs = <<>> THEN <<x>>
    ELSE LET last == xs[Len(xs)]
         IN  IF ~ SpecLess(last.specificity, x.specificity)
             THEN Append(insert_sorted_unstable(SubSeq(xs, 1, Len(xs) - 1), x), last)
             ELSE Append(xs, x)

\* Where a stable ascending sort puts x among the sorted xs: after every
\* element that is not greater.
RECURSIVE insert_sorted(_, _)
insert_sorted(xs, x) ==
    IF xs = <<>> THEN <<x>>
    ELSE LET last == xs[Len(xs)]
         IN  IF SpecLess(x.specificity, last.specificity)
             THEN Append(insert_sorted(SubSeq(xs, 1, Len(xs) - 1), x), last)
             ELSE Append(xs, x)

RECURSIVE sort_from(_, _, _)
sort_from(xs, k, acc) ==
    IF k > Len(xs) THEN acc ELSE sort_from(xs, k + 1, insert_sorted(acc, xs[k]))

\* The matched rules left in stylesheet order, as if the sort were missing.
sort_by_specificity_missing(xs) == xs

\* rules.sort_by(|&(sa, _), &(sb, _)| sa.cmp(&sb)): a stable sort, ascending.
sort_by_specificity(xs) == sort_from(xs, 1, <<>>)

\* values.insert(name, value) for each declaration, in order.
RECURSIVE insert_declarations(_, _, _)
insert_declarations(values, decls, k) ==
    IF k > Len(decls) THEN values
    ELSE insert_declarations(
             (decls[k].name :> decls[k].value) @@ values, decls, k + 1)

RECURSIVE apply_rules(_, _, _, _)
apply_rules(values, sheet, sorted, k) ==
    IF k > Len(sorted) THEN values
    ELSE apply_rules(
             insert_declarations(values, sheet[sorted[k].rule].declarations, 1),
             sheet, sorted, k + 1)

\* The sorted `rules` of specified_values.
sorted_rules(elem, sheet) == sort_by_specificity(matching_rules(elem, sheet))

\* specified_values: the declarations of the sorted rules, later ones
\* overwriting earlier ones.
specified(elem, sheet) == apply_rules(EmptyMap, sheet, sorted_rules(elem, sheet), 1)

-----------------------------------------------------------------------------
(* parser.rs: the order of a rule's selectors                              *)

\* parse_selectors sorts the selectors of a rule by specificity, highest
\* first, with a stable sort.
RECURSIVE insert_desc(_, _)
insert_desc(xs, x) ==
    IF xs = <<>> THEN <<x>>
    ELSE LET last == xs[Len(xs)]
         IN  IF SpecLess(specificity(last), specificity(x))
             THEN Append(insert_desc(SubSeq(xs, 1, Len(xs) - 1), x), last)
             ELSE Append(xs, x)

RECURSIVE parse_selectors_from(_, _, _)
parse_selectors_from(xs, k, acc) ==
    IF k > Len(xs) THEN acc ELSE parse_selectors_from(xs, k + 1, insert_desc(acc, xs[k]))

parse_selectors(written) == parse_selectors_from(written, 1, <<>>)

parse_rule(written) ==
    [selectors |-> parse_selectors(written.selectors),
     declarations |-> written.declarations]

-----------------------------------------------------------------------------
(* style.rs: the accessors of a StyledNode                                 *)

\* StyledNode::value: the specified value of a property, if it exists.
value(style, name) ==
    IF name \in DOMAIN style.specified_values
    THEN Some(style.specified_values[name]) ELSE None

\* StyledNode::lookup: `name`, else `fallback_name`, else `default`.
lookup(style, name, fallback_name, default) ==
    IF value(style, name) /= None THEN value(style, name)[1]
    ELSE IF value(style, fallback_name) /= None THEN value(style, fallback_name)[1]
    ELSE default

\* StyledNode::display: inline unless the keyword is "block" or "none".
display(style) ==
    LET v == value(style, "display")
    IN  IF v /= None /\ v[1].t = "Keyword"
        THEN CASE v[1].s = "block" -> "Block"
               [] v[1].s = "none" -> "DisplayNone"
               [] OTHER -> "Inline"
        ELSE "Inline"

-----------------------------------------------------------------------------
(* layout.rs: dimensions and width resolution                              *)

ZeroEdges == [left |-> 0, right |-> 0, top |-> 0, bottom |-> 0]

\* Default::default() of Dimensions: every field 0.0.
DefaultDimensions ==
    [x |-> 0, y |-> 0, width |-> 0, height |-> 0,
     padding |-> ZeroEdges, border |-> ZeroEdges, margin |-> ZeroEdges]

auto == Keyword("auto")

\* A margin value with its length counted in quarter pixels.
finer(v) == IF v.t = "Length" THEN Length(Fine(v.f)) ELSE v

\* The arm without its test of the underflow: the width takes the underflow
\* even when it is negative.
width_auto_arm_unclamped(margin_left, margin_right, underflow) ==
    [width |-> Length(underflow),
     margin_left |-> IF margin_left = auto THEN Length(0) ELSE finer(margin_left),
     margin_right |-> IF margin_right = auto THEN Length(0) ELSE finer(margin_right)]

\* The match arm (true, _, _) of calculate_block_width: width is auto.
width_auto_arm(margin_left, margin_right, underflow) ==
    LET ml == IF margin_left = auto THEN Length(0) ELSE margin_left
        mr == IF margin_right = auto THEN Length(0) ELSE margin_right
    IN  IF underflow >= 0
        THEN [width |-> Length(underflow),
              margin_left |-> finer(ml), margin_right |-> finer(mr)]
        ELSE [width |-> Length(0), margin_left |-> finer(ml),
              margin_right |-> Length(Fine(to_px(mr) + underflow))]

\* A match that turns every auto into 0 and leaves the underflow out.
resolve_auto_without_underflow(width, margin_left, margin_right, underflow) ==
    [width |-> IF width = auto THEN Length(0) ELSE width,
     margin_left |-> IF margin_left = auto THEN Length(0) ELSE finer(margin_left),
     margin_right |-> IF margin_right = auto THEN Length(0) ELSE finer(margin_right)]

\* The match of calculate_block_width on which of width, margin-left and
\* margin-right are auto.  width, margin_left, margin_right and underflow
\* come in half pixels; the margins of the result are in quarter pixels, so
\* that underflow / 2.0 is the count `underflow` itself.
resolve_auto(width, margin_left, margin_right, underflow) ==
    CASE width = auto ->
            width_auto_arm(margin_left, margin_right, underflow)
      [] width /= auto /\ margin_left /= auto /\ margin_right /= auto ->
            [width |-> width, margin_left |-> finer(margin_left),
             margin_right |-> Length(Fine(to_px(margin_right) + underflow))]
      [] width /= auto /\ margin_left /= auto /\ margin_right = auto ->
            [width |-> width, margin_left |-> finer(margin_left),
             margin_right |-> Length(Fine(underflow))]
      [] width /= auto /\ margin_left = auto /\ margin_right /= auto ->
            [width |-> width, margin_left |-> Length(Fine(underflow)),
             margin_right |-> finer(margin_right)]
      [] width /= auto /\ margin_left = auto /\ margin_right = auto ->
            [width |-> width, margin_left |-> Length(underflow),
             margin_right |-> Length(underflow)]

\* The property names calculate_block_width reads the right margin from.
margin_right_value(style) == lookup(style, "martin-right", "margin", Length(0))

\* calculate_block_width: the dimensions of a box with style node `style`
\* and dimensions d, inside containing_block.
calculate_block_width(style, d, containing_block) ==
    LET width == IF value(style, "width") /= None
                 THEN value(style, "width")[1] ELSE auto
        zero == Length(0)
        margin_left == lookup(style, "margin-left", "margin", zero)
        margin_right == margin_right_value(style)
        border_left == lookup(style, "border-left-width", "border-width", zero)
        border_right == lookup(style, "border-right-width", "border-width", zero)
        padding_left == lookup(style, "padding-left", "padding", zero)
        padding_right == lookup(style, "padding-right", "padding", zero)
        total == to_px(margin_left) + to_px(margin_right) + to_px(border_left)
                 + to_px(border_right) + to_px(padding_left) + to_px(padding_right)
                 + to_px(width)
        wide == width /= auto /\ total > containing_block.width
        ml == IF wide /\ margin_left = auto THEN Length(0) ELSE margin_left
        mr == IF wide /\ margin_right = auto THEN Length(0) ELSE margin_right
        underflow == containing_block.width - total
        r == resolve_auto(width, ml, mr, underflow)
    IN  [d EXCEPT !.width = to_px(r.width),
                  !.padding.left = to_px(padding_left),
                  !.padding.right = to_px(padding_right),
                  !.margin.left = to_px(r.margin_left),
                  !.margin.right = to_px(r.margin_right),
                  !.border.left = to_px(border_left),
                  !.border.right = to_px(border_right)]

-----------------------------------------------------------------------------
(* layout.rs: the other geometry steps                                     *)

\* The height total with the padding counted twice and nothing else.
margin_box_height_padding_only(d) ==
    d.height + 2 * (d.padding.top + d.padding.bottom)

\* Dimensions::margin_box_height.
margin_box_height(d) ==
    d.height + d.padding.top + d.padding.bottom
             + d.border.top + d.border.bottom
             + d.padding.top + d.padding.bottom

\* The position without the containing block's running height: every box
\* at the top of its container.
calculate_block_position_at_top(style, d, containing_block) ==
    LET zero == Length(0)
        d1 == [d EXCEPT
                 !.margin.top = to_px(lookup(style, "margin-top", "margin", zero)),
                 !.margin.bottom = to_px(lookup(style, "margin-bottom", "margin", zero)),
                 !.border.top = to_px(lookup(style, "border-top-width", "border-width", zero)),
                 !.border.bottom = to_px(lookup(style, "border-bottom-width", "border-width", zero)),
                 !.padding.top = to_px(lookup(style, "padding-top", "padding", zero)),
                 !.padding.bottom = to_px(lookup(style, "padding-bottom", "padding", zero))]
    IN  [d1 EXCEPT
           !.x = containing_block.x + d1.margin.left
                 + Fine(d1.border.left + d1.padding.left),
           !.y = containing_block.y + d1.margin.top + d1.border.top + d1.padding.top]

\* calculate_block_position.
calculate_block_position(style, d, containing_block) ==
    LET zero == Length(0)
        d1 == [d EXCEPT
                 !.margin.top = to_px(lookup(style, "margin-top", "margin", zero)),
                 !.margin.bottom = to_px(lookup(style, "margin-bottom", "margin", zero)),
                 !.border.top = to_px(lookup(style, "border-top-width", "border-width", zero)),
                 !.border.bottom = to_px(lookup(style, "border-bottom-width", "border-width", zero)),
                 !.padding.top = to_px(lookup(style, "padding-top", "padding", zero)),
                 !.padding.bottom = to_px(lookup(style, "padding-bottom", "padding", zero))]
    IN  [d1 EXCEPT
           !.x = containing_block.x + d1.margin.left
                 + Fine(d1.border.left + d1.padding.left),
           !.y = containing_block.y + containing_block.height
                 + d1.margin.top + d1.border.top + d1.padding.top]

\* calculate_block_height without the match on the height property.
calculate_block_height_accumulated_only(style, d) == d

\* calculate_block_height: an explicit length replaces the accumulated height.
calculate_block_height(style, d) ==
    LET h == value(style, "height")
    IN  IF h /= None /\ h[1].t = "Length" THEN [d EXCEPT !.height = h[1].f] ELSE d

-----------------------------------------------------------------------------
(* layout.rs: the layout tree                                              *)

RootMessage == "Root node has display: none."
AnonymousMessage == "Anonymous block box has no style node"

\* LayoutBox::new.  `node` is the place of the styled node in `styled`
\* (0 for an anonymous box, which has none).
new_box(box_type, n) ==
    [box_type |-> box_type, node |-> n,
     dimensions |-> DefaultDimensions, children |-> <<>>]

\* style_node.children, in order: the style tree is kept in pre-order, each
\* node naming its parent.
RECURSIVE children_from(_, _, _)
children_from(tree, n, j) ==
    IF j > Len(tree) THEN <<>>
    ELSE (IF tree[j].parent = n THEN <<j>> ELSE <<>>) \o children_from(tree, n, j + 1)

style_children(tree, n) == children_from(tree, n, n + 1)

\* The child put in front of its siblings instead of after them.
push_child_front(bs, parent, child) ==
    [bs EXCEPT ![parent].children = <<child>> \o @]

\* parent.children.push(child).
push_child(bs, parent, child) ==
    [bs EXCEPT ![parent].children = Append(@, child)]

\* A get_inline_container that never reuses the last anonymous child.
get_inline_container_always_new(bs, b) ==
    IF bs[b].box_type \in {"InlineNode", "AnonymousBlock"}
    THEN [boxes |-> bs, container |-> b]
    ELSE [boxes |-> push_child(Append(bs, new_box("AnonymousBlock", 0)), b, Len(bs) + 1),
          container |-> Len(bs) + 1]

\* get_inline_container: where a new inline child of box b should go.
get_inline_container(bs, b) ==
    IF bs[b].box_type \in {"InlineNode", "AnonymousBlock"}
    THEN [boxes |-> bs, container |-> b]
    ELSE LET kids == bs[b].children
         IN  IF kids /= <<>> /\ bs[kids[Len(kids)]].box_type = "AnonymousBlock"
             THEN [boxes |-> bs, container |-> kids[Len(kids)]]
             ELSE [boxes |-> push_child(Append(bs, new_box("AnonymousBlock", 0)),
                                        b, Len(bs) + 1),
                   container |-> Len(bs) + 1]

\* The box type of the root box build_layout_tree creates for a display.
root_box_type(d) == IF d = "Block" THEN "BlockNode" ELSE "InlineNode"

\* build_layout_tree(style_node), adding its boxes to bs: the new boxes, the
\* root box of the subtree, and whether fail! was reached.
RECURSIVE build_layout_tree(_, _, _)
RECURSIVE build_children(_, _, _, _, _)
build_layout_tree(tree, n, bs) ==
    IF display(tree[n]) = "DisplayNone"
    THEN [boxes |-> bs, root |-> 0, failed |-> TRUE]
    ELSE build_children(tree, style_children(tree, n), 1, Len(bs) + 1,
                        Append(bs, new_box(root_box_type(display(tree[n])), n)))

build_children(tree, kids, k, root, bs) ==
    IF k > Len(kids) THEN [boxes |-> bs, root |-> root, failed |-> FALSE]
    ELSE CASE display(tree[kids[k]]) = "Block" ->
                LET r == build_layout_tree(tree, kids[k], bs)
                IN  IF r.failed THEN r
                    ELSE build_children(tree, kids, k + 1, root,
                                        push_child(r.boxes, root, r.root))
           [] display(tree[kids[k]]) = "Inline" ->
                LET c == get_inline_container(bs, root)
                    r == build_layout_tree(tree, kids[k], c.boxes)
                IN  IF r.failed THEN r
                    ELSE build_children(tree, kids, k + 1, root,
                                        push_child(r.boxes, c.container, r.root))
           [] OTHER -> build_children(tree, kids, k + 1, root, bs)

\* get_style_node: Some(node), or None where the source fails.
get_style_node(box) ==
    IF box.box_type = "AnonymousBlock" THEN None ELSE Some(box.node)

\* A layout that also sends anonymous boxes to layout_block.
lays_out_block_or_anonymous(box) == box.box_type \in {"BlockNode", "AnonymousBlock"}

\* A layout that also sends inline boxes to layout_block.
lays_out_block_or_inline(box) == box.box_type \in {"BlockNode", "InlineNode"}

\* LayoutBox::layout: which boxes a call of layout lays out as a block.
lays_out_block(box) == box.box_type = "BlockNode"

-----------------------------------------------------------------------------
(* Bounds and inputs                                                       *)

\* The longest stylesheet, in rules.
MaxRules == 3
\* The largest style tree, in nodes.
MaxNodes == 4

Element(tag_name, attributes) ==
    [node_type |-> "Element", tag_name |-> tag_name, attributes |-> attributes, data |-> ""]
Text(data) ==
    [node_type |-> "Text", tag_name |-> "", attributes |-> EmptyMap, data |-> data]

\* <div id="a" class="b c">, <div class="b"> and a text node.
Nodes ==
    {Element("div", ("id" :> <<"a">>) @@ ("class" :> <<"b", "c">>)),
     Element("div", ("class" :> <<"b">>)),
     Text("hello")}

Red == Color(255, 0, 0, 255)
Blue == Color(0, 0, 255, 255)

Declaration(name, v) == [name |-> name, value |-> v]

\* The selector lists as written in the stylesheet's text:
\* `div`, `.b`, `.b.c`, `#a` and `div, #a`.
WrittenSelectors ==
    {<<SimpleSelector(Some("div"), None, <<>>)>>,
     <<SimpleSelector(None, None, <<"b">>)>>,
     <<SimpleSelector(None, None, <<"b", "c">>)>>,
     <<SimpleSelector(None, Some("a"), <<>>)>>,
     <<SimpleSelector(Some("div"), None, <<>>), SimpleSelector(None, Some("a"), <<>>)>>}

WrittenDeclarations ==
    {<<Declaration("color", Red)>>,
     <<Declaration("color", Blue)>>,
     <<Declaration("display", Keyword("block"))>>}

\* The rules parse_css can return for these texts.
ParsedRules ==
    {parse_rule([selectors |-> ss, declarations |-> ds]) :
        ss \in WrittenSelectors, ds \in WrittenDeclarations}

Stylesheets == UNION {[1..n -> ParsedRules] : n \in 0..MaxRules}

\* The most rules of a stylesheet built from Rule values.
MaxBuiltRules == 2

\* Rule values built directly (the fields of css::Rule are public): one or
\* two selectors in any order, sorted by specificity or not.
BuiltSelectors ==
    {SimpleSelector(Some("div"), None, <<>>),
     SimpleSelector(None, None, <<"b">>),
     SimpleSelector(None, None, <<"b", "c">>),
     SimpleSelector(None, Some("a"), <<>>)}

BuiltRules ==
    {[selectors |-> ss, declarations |-> ds] :
        ss \in {<<x>> : x \in BuiltSelectors}
                \cup {<<x, y>> : x \in BuiltSelectors, y \in BuiltSelectors},
        ds \in {<<Declaration("color", Red)>>, <<Declaration("color", Blue)>>}}

BuiltStylesheets == UNION {[1..n -> BuiltRules] : n \in 0..MaxBuiltRules}

\* A property map from (name, Option<Value>) pairs.
RECURSIVE map_of(_, _)
map_of(pairs, k) ==
    IF k > Len(pairs) THEN EmptyMap
    ELSE IF pairs[k][2] = None THEN map_of(pairs, k + 1)
    ELSE (pairs[k][1] :> pairs[k][2][1]) @@ map_of(pairs, k + 1)

OptLength(n) == {None, Some(Length(Px(n)))}
OptAutoLength(n) == {None, Some(auto), Some(Length(Px(n)))}

\* The containing blocks of the width resolution: main.rs's 800 x 600
\* viewport, and two narrower ones.
ContainingBlocks ==
    {[DefaultDimensions EXCEPT !.width = Px(w), !.height = Px(600)] : w \in {800, 100, 0}}

\* The style trees of at most MaxNodes nodes, in pre-order: the parent of
\* node i is node i - 1 or one of its ancestors.
RECURSIVE on_path(_, _, _)
on_path(p, a, j) == a = j \/ (j > 0 /\ on_path(p, a, p[j]))

ParentVectors(n) ==
    {p \in [1..n -> 0..(n - 1)] :
        p[1] = 0 /\ \A i \in 2..n : p[i] > 0 /\ on_path(p, p[i], i - 1)}

BlockKw == "display" :> Keyword("block")

\* The specified values a node of the style tree may have.
LayoutStyles ==
    {("display" :> Keyword("none")),
     EmptyMap,
     BlockKw @@ ("height" :> Length(Px(10))),
     BlockKw @@ ("height" :> Length(Px(20))),
     BlockKw @@ ("width" :> Length(Px(100))) @@ ("height" :> auto) @@ ("margin-left" :> auto)
             @@ ("margin-top" :> Length(Px(16))) @@ ("margin-bottom" :> Length(Px(32)))
             @@ ("border-top-width" :> Length(Px(4))) @@ ("border-bottom-width" :> Length(Px(8)))
             @@ ("padding-top" :> Length(Px(1))) @@ ("padding" :> Length(Px(2)))}

\* The containing block handed to layout_tree: main.rs's viewport.
initial_containing_block ==
    [DefaultDimensions EXCEPT !.width = Px(800), !.height = Px(600)]

-----------------------------------------------------------------------------
(* The cascade: style_tree on one node                                     *)

CascadeInit ==
    /\ node \in Nodes
    /\ stylesheet \in Stylesheets
    /\ rules = <<>>
    /\ specified_values = EmptyMap
    /\ spc = "start"

\* style_tree handed a stylesheet of built rules.
MatchInit ==
    /\ node \in Nodes
    /\ stylesheet \in BuiltStylesheets
    /\ rules = <<>>
    /\ specified_values = EmptyMap
    /\ spc = "start"

CascadeIdle ==
    /\ node = Text("")
    /\ stylesheet = <<>>
    /\ rules = <<>>
    /\ specified_values = EmptyMap
    /\ spc = "idle"

\* style_tree on an element: specified_values.
StyleElement ==
    /\ spc = "start"
    /\ node.node_type = "Element"
    /\ rules' = sorted_rules(node, stylesheet)
    /\ specified_values' = specified(node, stylesheet)
    /\ spc' = "styled"
    /\ UNCHANGED <<node, stylesheet>>
    /\ UNCHANGED wvars
    /\ UNCHANGED lvars

\* style_tree on a text node: an empty map.
StyleText ==
    /\ spc = "start"
    /\ node.node_type = "Text"
    /\ specified_values' = EmptyMap
    /\ spc' = "styled"
    /\ UNCHANGED <<node, stylesheet, rules>>
    /\ UNCHANGED wvars
    /\ UNCHANGED lvars

-----------------------------------------------------------------------------
(* Width resolution: calculate_block_width on one box                      *)

WidthInit ==
    /\ \E w \in {None, Some(auto), Some(Length(Px(100))), Some(Length(Px(100) - 1)),
                  Some(Keyword("inherit"))},
          ml \in OptAutoLength(10), mr \in OptAutoLength(20),
          m \in OptAutoLength(5) \cup {Some(Keyword("inherit"))},
          bl \in OptLength(1), br \in OptLength(2),
          b \in OptLength(3) \cup {Some(Keyword("thin"))},
          pl \in OptLength(4), pr \in OptLength(6), pd \in OptLength(7) :
          wstyle = [specified_values |->
                      map_of(<< <<"width", w>>, <<"margin-left", ml>>,
                                <<"margin-right", mr>>, <<"margin", m>>,
                                <<"border-left-width", bl>>, <<"border-right-width", br>>,
                                <<"border-width", b>>, <<"padding-left", pl>>,
                                <<"padding-right", pr>>, <<"padding", pd>> >>, 1)]
    /\ wcb \in ContainingBlocks
    /\ wdims = DefaultDimensions
    /\ wpc = "start"

WidthIdle ==
    /\ wstyle = [specified_values |-> EmptyMap]
    /\ wcb = DefaultDimensions
    /\ wdims = DefaultDimensions
    /\ wpc = "idle"

CalculateBlockWidth ==
    /\ wpc = "start"
    /\ wdims' = calculate_block_width(wstyle, wdims, wcb)
    /\ wpc' = "done"
    /\ UNCHANGED <<wstyle, wcb>>
    /\ UNCHANGED cvars
    /\ UNCHANGED lvars

-----------------------------------------------------------------------------
(* Layout: layout_tree on a style tree                                     *)

LayoutInit ==
    /\ \E n \in 1..MaxNodes : \E p \in ParentVectors(n) : \E st \in [1..n -> LayoutStyles] :
          styled = [i \in 1..n |-> [parent |-> p[i], specified_values |-> st[i]]]
    /\ viewport = initial_containing_block
    /\ boxes = <<>>
    /\ stack = <<>>
    /\ trace = <<>>
    /\ failure = ""
    /\ lpc = "start"

LayoutIdle ==
    /\ styled = <<>>
    /\ viewport = DefaultDimensions
    /\ boxes = <<>>
    /\ stack = <<>>
    /\ trace = <<>>
    /\ failure = ""
    /\ lpc = "idle"

\* A call of layout_block on box b.
Frame(b, containing_block) ==
    [box |-> b, containing_block |-> containing_block, pc |-> "width", i |-> 1]

Top == stack[Len(stack)]

\* The stack with its innermost frame replaced.
WithTop(f) == [stack EXCEPT ![Len(stack)] = f]

\* layout_tree, first half: build_layout_tree, which fails on a root that is
\* display: none.
BuildLayoutTree ==
    /\ lpc = "start"
    /\ LET r == build_layout_tree(styled, 1, <<>>)
       IN  IF r.failed
           THEN /\ lpc' = "failed"
                /\ failure' = RootMessage
                /\ UNCHANGED <<boxes, trace>>
           ELSE /\ lpc' = "built"
                /\ boxes' = r.boxes
                /\ trace' = [b \in 1..Len(r.boxes) |-> <<"unlaid">>]
                /\ UNCHANGED failure
    /\ UNCHANGED <<styled, viewport, stack>>
    /\ UNCHANGED cvars
    /\ UNCHANGED wvars

\* layout_tree, second half: root_box.layout(containing_block) on a block
\* root enters layout_block.
LayoutRootBlock ==
    /\ lpc = "built"
    /\ lays_out_block(boxes[1])
    /\ stack' = <<Frame(1, viewport)>>
    /\ lpc' = "layout"
    /\ UNCHANGED <<styled, viewport, boxes, trace, failure>>
    /\ UNCHANGED cvars
    /\ UNCHANGED wvars

\* ... and on any other root it does nothing.
LayoutRootOther ==
    /\ lpc = "built"
    /\ ~ lays_out_block(boxes[1])
    /\ lpc' = "done"
    /\ UNCHANGED <<styled, viewport, boxes, stack, trace, failure>>
    /\ UNCHANGED cvars
    /\ UNCHANGED wvars

\* A geometry step of layout_block starts with get_style_node, which fails
\* on an anonymous box: the fail! ends the whole call.
StyleNodeMissing == get_style_node(boxes[Top.box]) = None

FailNoStyleNode ==
    /\ lpc' = "failed"
    /\ failure' = AnonymousMessage
    /\ UNCHANGED <<boxes, stack, trace>>

\* The style node of the innermost box.
TopStyle == styled[get_style_node(boxes[Top.box])[1]]

\* The step's result: the box's new dimensions, the next step, and the
\* layout state the box has reached.
StepTo(d, next_pc, state) ==
    /\ boxes' = [boxes EXCEPT ![Top.box].dimensions = d]
    /\ stack' = WithTop([Top EXCEPT !.pc = next_pc])
    /\ trace' = [trace EXCEPT ![Top.box] = Append(@, state)]
    /\ UNCHANGED <<failure, lpc>>

\* layout_block: self.calculate_block_width(containing_block).
CalcWidth ==
    /\ lpc = "layout"
    /\ Top.pc = "width"
    /\ IF StyleNodeMissing THEN FailNoStyleNode
       ELSE StepTo(calculate_block_width(TopStyle, boxes[Top.box].dimensions,
                                         Top.containing_block),
                   "position", "width-resolved")
    /\ UNCHANGED <<styled, viewport>>
    /\ UNCHANGED cvars
    /\ UNCHANGED wvars

\* layout_block: self.calculate_block_position(containing_block).
CalcPosition ==
    /\ lpc = "layout"
    /\ Top.pc = "position"
    /\ IF StyleNodeMissing THEN FailNoStyleNode
       ELSE StepTo(calculate_block_position(TopStyle, boxes[Top.box].dimensions,
                                            Top.containing_block),
                   "children", "positioned")
    /\ UNCHANGED <<styled, viewport>>
    /\ UNCHANGED cvars
    /\ UNCHANGED wvars

\* layout_block: self.calculate_block_height(), after the children.
CalcHeight ==
    /\ lpc = "layout"
    /\ Top.pc = "height"
    /\ IF StyleNodeMissing THEN FailNoStyleNode
       ELSE StepTo(calculate_block_height(TopStyle, boxes[Top.box].dimensions),
                   "return", "height-resolved")
    /\ UNCHANGED <<styled, viewport>>
    /\ UNCHANGED cvars
    /\ UNCHANGED wvars

\* layout_block_children, child.layout(*d) on a block child: layout_block
\* starts on the child, against a copy of this box's dimensions.
LayoutBlockChild ==
    /\ lpc = "layout"
    /\ Top.pc = "children"
    /\ Top.i <= Len(boxes[Top.box].children)
    /\ LET child == boxes[Top.box].children[Top.i]
       IN  /\ lays_out_block(boxes[child])
           /\ stack' = Append(WithTop([Top EXCEPT !.pc = "child"]),
                              Frame(child, boxes[Top.box].dimensions))
    /\ UNCHANGED <<styled, viewport, boxes, trace, failure, lpc>>
    /\ UNCHANGED cvars
    /\ UNCHANGED wvars

\* layout_block_children on an inline or anonymous child: layout does
\* nothing, and the child's margin box height is added to d.height.
LayoutOtherChild ==
    /\ lpc = "layout"
    /\ Top.pc = "children"
    /\ Top.i <= Len(boxes[Top.box].children)
    /\ LET child == boxes[Top.box].children[Top.i]
       IN  /\ ~ lays_out_block(boxes[child])
           /\ boxes' = [boxes EXCEPT ![Top.box].dimensions.height =
                           @ + margin_box_height(boxes[child].dimensions)]
    /\ stack' = WithTop([Top EXCEPT !.i = @ + 1])
    /\ UNCHANGED <<styled, viewport, trace, failure, lpc>>
    /\ UNCHANGED cvars
    /\ UNCHANGED wvars

\* layout_block_children: the loop over the children ends.
ChildrenDone ==
    /\ lpc = "layout"
    /\ Top.pc = "children"
    /\ Top.i > Len(boxes[Top.box].children)
    /\ stack' = WithTop([Top EXCEPT !.pc = "height"])
    /\ trace' = [trace EXCEPT ![Top.box] = Append(@, "children-laid-out")]
    /\ UNCHANGED <<styled, viewport, boxes, failure, lpc>>
    /\ UNCHANGED cvars
    /\ UNCHANGED wvars

\* layout_block returns into the parent's layout_block_children, which adds
\* the child's margin box height to d.height and goes on to the next child.
ReturnToParent ==
    /\ lpc = "layout"
    /\ Top.pc = "return"
    /\ Len(stack) > 1
    /\ LET parent == stack[Len(stack) - 1]
       IN  /\ boxes' = [boxes EXCEPT ![parent.box].dimensions.height =
                           @ + margin_box_height(boxes[Top.box].dimensions)]
           /\ stack' = Append(SubSeq(stack, 1, Len(stack) - 2),
                              [parent EXCEPT !.pc = "children", !.i = @ + 1])
    /\ UNCHANGED <<styled, viewport, trace, failure, lpc>>
    /\ UNCHANGED cvars
    /\ UNCHANGED wvars

\* layout_block of the root box returns: layout_tree returns the tree.
ReturnRoot ==
    /\ lpc = "layout"
    /\ Top.pc = "return"
    /\ Len(stack) = 1
    /\ stack' = <<>>
    /\ lpc' = "done"
    /\ UNCHANGED <<styled, viewport, boxes, trace, failure>>
    /\ UNCHANGED cvars
    /\ UNCHANGED wvars

-----------------------------------------------------------------------------
(* Specifications                                                          *)

CascadeNext == StyleElement \/ StyleText

WidthNext == CalculateBlockWidth

LayoutNext ==
    \/ BuildLayoutTree
    \/ LayoutRootBlock
    \/ LayoutRootOther
    \/ CalcWidth
    \/ CalcPosition
    \/ LayoutBlockChild
    \/ LayoutOtherChild
    \/ ChildrenDone
    \/ CalcHeight
    \/ ReturnToParent
    \/ ReturnRoot

\* style_tree on one node of a document.
InitCascade == CascadeInit /\ WidthIdle /\ LayoutIdle
SpecCascade == InitCascade /\ [][CascadeNext]_vars

\* style_tree on one node, the stylesheet built from Rule values.
InitMatch == MatchInit /\ WidthIdle /\ LayoutIdle
SpecMatch == InitMatch /\ [][CascadeNext]_vars

\* calculate_block_width on one box.
InitWidth == CascadeIdle /\ WidthInit /\ LayoutIdle
SpecWidth == InitWidth /\ [][WidthNext]_vars

\* layout_tree on a style tree.
Init == CascadeIdle /\ WidthIdle /\ LayoutInit
Next == LayoutNext
Spec == Init /\ [][Next]_vars

-----------------------------------------------------------------------------
(* Claims about the cascade (SpecCascade)                                  *)

Styled == spc = "styled" /\ node.node_type = "Element"

\* Rule r of the stylesheet declares property p.
Declares(r, p) ==
    \E k \in 1..Len(stylesheet[r].declarations) : stylesheet[r].declarations[k].name = p

\* The value rule r gives property p: that of its last declaration of p.
DeclaredValue(r, p) ==
    LET ds == stylesheet[r].declarations
        k == CHOOSE k \in 1..Len(ds) :
                 ds[k].name = p /\ \A m \in (k + 1)..Len(ds) : ds[m].name /= p
    IN  ds[k].value

\* The place of rule r among the matched rules, 0 when it did not match.
PlaceOf(r) ==
    IF \E k \in 1..Len(rules) : rules[k].rule = r
    THEN CHOOSE k \in 1..Len(rules) : rules[k].rule = r
    ELSE 0

\* The specificity rule r was paired with.
PairedWith(r) == rules[PlaceOf(r)].specificity

\* The matched rules that declare p.
Declaring(p) == {r \in 1..Len(stylesheet) : PlaceOf(r) > 0 /\ Declares(r, p)}

PropertyNames == {"color", "display"}

\* Rule `winner` prevails over rule `loser` for property p: it is applied
\* after it, and the resolved value is never the loser's own.
Prevails(winner, loser, p) ==
    /\ PlaceOf(winner) > PlaceOf(loser)
    /\ p \in DOMAIN specified_values
    /\ specified_values[p] \in {DeclaredValue(k, p) : k \in Declaring(p) \ {loser}}

\* The only selector of rule r, when it has one selector.
Single(r) == stylesheet[r].selectors[1]
HasId(sel) == sel.id /= None
ClassOnly(sel) == sel.id = None /\ sel.tag_name = None /\ sel.class /= <<>>
TagOnly(sel) == sel.id = None /\ sel.class = <<>> /\ sel.tag_name /= None

\* C1: of two matching rules that declare the same property, the one paired
\* with the strictly greater specificity (lexicographic on ids, classes,
\* tags) gives the resolved value, whichever comes first in the stylesheet;
\* an id selector outranks a class-only selector, which outranks a tag-only
\* selector.
C1_HigherSpecificityWins ==
    Styled =>
        \A p \in PropertyNames : \A i \in Declaring(p) : \A j \in Declaring(p) :
            /\ SpecLess(PairedWith(j), PairedWith(i)) => Prevails(i, j, p)
            /\ (/\ Len(stylesheet[i].selectors) = 1
                /\ Len(stylesheet[j].selectors) = 1
                /\ \/ HasId(Single(i)) /\ ClassOnly(Single(j))
                   \/ HasId(Single(i)) /\ TagOnly(Single(j))
                   \/ ClassOnly(Single(i)) /\ TagOnly(Single(j)))
               => Prevails(i, j, p)

\* C1's case: `#a { color: blue }` comes before `div { color: red }`, both
\* match, and the colour is resolved to blue.
C1_Witness ==
    /\ Styled
    /\ Len(stylesheet) = 2
    /\ Declaring("color") = {1, 2}
    /\ SpecLess(PairedWith(2), PairedWith(1))
    /\ HasId(Single(1)) /\ TagOnly(Single(2))
    /\ DeclaredValue(1, "color") = Blue
    /\ DeclaredValue(2, "color") = Red
    /\ specified_values["color"] = Blue

\* C2: of two matching rules paired with equal specificity that declare the
\* same property, the one later in the stylesheet gives the resolved value.
C2_LaterRuleWinsTies ==
    Styled =>
        \A p \in PropertyNames : \A i \in Declaring(p) : \A j \in Declaring(p) :
            (i < j /\ PairedWith(i) = PairedWith(j)) => Prevails(j, i, p)

\* C2's case: two matching rules of equal specificity give different
\* colours, a rule of lower specificity follows them, and the colour is that
\* of the second.
C2_Witness ==
    /\ Styled
    /\ Len(stylesheet) = 3
    /\ Declaring("color") = {1, 2, 3}
    /\ PairedWith(1) = PairedWith(2)
    /\ SpecLess(PairedWith(3), PairedWith(1))
    /\ DeclaredValue(1, "color") = Blue
    /\ DeclaredValue(2, "color") = Red
    /\ DeclaredValue(3, "color") = Blue
    /\ specified_values["color"] = Red

-----------------------------------------------------------------------------
(* Claims about width resolution (SpecWidth)                               *)

WidthDone == wpc = "done"

\* The style leaves width auto: absent, or the keyword auto.
WidthIsAuto == value(wstyle, "width") \in {None, Some(auto)}

\* The style gives width as a pixel length.
WidthIsFixed == value(wstyle, "width") /= None /\ value(wstyle, "width")[1].t = "Length"

\* The horizontal border and padding of the style, in px.
BorderAndPadding ==
    to_px(lookup(wstyle, "border-left-width", "border-width", Length(0)))
    + to_px(lookup(wstyle, "border-right-width", "border-width", Length(0)))
    + to_px(lookup(wstyle, "padding-left", "padding", Length(0)))
    + to_px(lookup(wstyle, "padding-right", "padding", Length(0)))

\* The left and right margins the style specifies: the longhand, else the
\* `margin` shorthand, else 0.
SpecifiedMarginLeft == lookup(wstyle, "margin-left", "margin", Length(0))
SpecifiedMarginRight == lookup(wstyle, "margin-right", "margin", Length(0))

\* C3: a fixed width with margin-left and margin-right both auto, in a
\* containing block wide enough, gets equal left and right margins, each
\* half of the underflow.
C3_AutoMarginsSplitEvenly ==
    (/\ WidthDone
     /\ WidthIsFixed
     /\ SpecifiedMarginLeft = auto
     /\ SpecifiedMarginRight = auto
     /\ wcb.width >= to_px(wstyle.specified_values["width"]) + BorderAndPadding)
    => LET underflow == wcb.width - to_px(wstyle.specified_values["width"])
                        - BorderAndPadding
       IN  /\ wdims.margin.left = wdims.margin.right
           /\ wdims.margin.left + wdims.margin.right = Fine(underflow)

\* The right margin calculate_block_width works with (line 147), auto
\* counted as 0.
UsedMarginRight ==
    IF margin_right_value(wstyle) = auto THEN 0 ELSE to_px(margin_right_value(wstyle))

UsedMarginLeft ==
    IF SpecifiedMarginLeft = auto THEN 0 ELSE to_px(SpecifiedMarginLeft)

\* C4: with width auto the resolved width is never negative: auto margins
\* become 0, the width is the underflow when that is >= 0, and otherwise the
\* width is 0 and the negative underflow is added to the right margin; with
\* no horizontal margin, border or padding the width is the containing
\* block's.
C4_AutoWidthNeverNegative ==
    (WidthDone /\ WidthIsAuto) =>
        LET underflow == wcb.width - (UsedMarginLeft + UsedMarginRight + BorderAndPadding)
        IN  /\ wdims.width >= 0
            /\ wdims.margin.left = Fine(UsedMarginLeft)
            /\ underflow >= 0 =>
                   wdims.width = underflow /\ wdims.margin.right = Fine(UsedMarginRight)
            /\ underflow < 0 =>
                   /\ wdims.width = 0
                   /\ wdims.margin.right = Fine(UsedMarginRight + underflow)
            /\ (UsedMarginLeft = 0 /\ UsedMarginRight = 0 /\ BorderAndPadding = 0) =>
                   wdims.width = wcb.width

\* C4's case: an auto width and an auto left margin in a containing block
\* narrower than the padding: the width is 0 and the right margin negative.
C4_Witness ==
    /\ WidthDone
    /\ WidthIsAuto
    /\ SpecifiedMarginLeft = auto
    /\ wcb.width < BorderAndPadding
    /\ wdims.width = 0
    /\ wdims.margin.left = 0
    /\ wdims.margin.right < 0

\* C9: with `margin-right: L` (a pixel length, no `margin` shorthand), width
\* auto and room to spare, the stored right margin is L and the width is
\* the containing width less L and the other margin, border and padding.
C9_RightMarginFromMarginRight ==
    (/\ WidthDone
     /\ WidthIsAuto
     /\ value(wstyle, "margin-right") /= None
     /\ value(wstyle, "margin-right")[1].t = "Length"
     /\ value(wstyle, "margin") = None
     /\ wcb.width - to_px(value(wstyle, "margin-right")[1])
            - UsedMarginLeft - BorderAndPadding >= 0)
    => /\ wdims.margin.right = Fine(to_px(value(wstyle, "margin-right")[1]))
       /\ wdims.width = wcb.width - to_px(value(wstyle, "margin-right")[1])
                        - UsedMarginLeft - BorderAndPadding

-----------------------------------------------------------------------------
(* Claims about layout (Spec)                                              *)

Built == lpc \in {"built", "layout", "done"}

BoxIds == 1..Len(boxes)

IsBlock(b) == boxes[b].box_type = "BlockNode"
IsAnonymous(b) == boxes[b].box_type = "AnonymousBlock"

\* The style node of a block or inline box.
StyleOf(b) == styled[boxes[b].node]

\* The layout states of a block box, in order.
FullTrace ==
    <<"unlaid", "width-resolved", "positioned", "children-laid-out", "height-resolved">>

LaidOut(b) == trace[b] = FullTrace

IsPrefix(xs, ys) == Len(xs) <= Len(ys) /\ xs = SubSeq(ys, 1, Len(xs))

\* The box that has b among its children, 0 for the root box.
ParentBox(b) ==
    IF \E q \in BoxIds : \E k \in 1..Len(boxes[q].children) : boxes[q].children[k] = b
    THEN CHOOSE q \in BoxIds : \E k \in 1..Len(boxes[q].children) : boxes[q].children[k] = b
    ELSE 0

\* b and every box above it are block boxes.
RECURSIVE BlockPath(_)
BlockPath(b) == IsBlock(b) /\ (ParentBox(b) = 0 \/ BlockPath(ParentBox(b)))

\* The pre-order walk of the layout tree below box b.
RECURSIVE PreOrder(_)
RECURSIVE PreOrderAll(_, _)
PreOrder(b) == <<b>> \o PreOrderAll(boxes[b].children, 1)
PreOrderAll(kids, k) ==
    IF k > Len(kids) THEN <<>> ELSE PreOrder(kids[k]) \o PreOrderAll(kids, k + 1)

\* The style height of box b is an explicit pixel length.
ExplicitHeight(b) ==
    value(StyleOf(b), "height") /= None /\ value(StyleOf(b), "height")[1].t = "Length"

\* The vertical margin, border and padding of box b's style, summed.
VerticalEdges(b) ==
    to_px(lookup(StyleOf(b), "margin-top", "margin", Length(0)))
    + to_px(lookup(StyleOf(b), "margin-bottom", "margin", Length(0)))
    + to_px(lookup(StyleOf(b), "border-top-width", "border-width", Length(0)))
    + to_px(lookup(StyleOf(b), "border-bottom-width", "border-width", Length(0)))
    + to_px(lookup(StyleOf(b), "padding-top", "padding", Length(0)))
    + to_px(lookup(StyleOf(b), "padding-bottom", "padding", Length(0)))

\* The explicit heights of the first k - 1 boxes of kids, summed.
RECURSIVE HeightsBefore(_, _)
HeightsBefore(kids, k) ==
    IF k <= 1 THEN 0
    ELSE HeightsBefore(kids, k - 1) + to_px(StyleOf(kids[k - 1]).specified_values["height"])

\* The children of b are block boxes with explicit heights and no vertical
\* margin, border or padding.
PlainBlockChildren(b) ==
    /\ boxes[b].children /= <<>>
    /\ \A k \in 1..Len(boxes[b].children) :
          LET c == boxes[b].children[k]
          IN  IsBlock(c) /\ ExplicitHeight(c) /\ VerticalEdges(c) = 0

\* C5: once a block box whose children are such plain blocks is laid out,
\* its k-th child's y is its own content y plus the explicit heights of the
\* children before, whatever its own height.
C5_ChildrenStack ==
    Built =>
        \A b \in BoxIds :
            (IsBlock(b) /\ LaidOut(b) /\ PlainBlockChildren(b)) =>
                \A k \in 1..Len(boxes[b].children) :
                    boxes[boxes[b].children[k]].dimensions.y
                        = boxes[b].dimensions.y + HeightsBefore(boxes[b].children, k)

\* C5's case: a root of explicit height with three plain block children, the
\* first two 10px and 20px high, laid out at 0, 10 and 30px below its top.
C5_Witness ==
    /\ lpc = "done"
    /\ IsBlock(1) /\ LaidOut(1) /\ PlainBlockChildren(1) /\ ExplicitHeight(1)
    /\ Len(boxes[1].children) = 3
    /\ boxes[boxes[1].children[1]].dimensions.height = Px(10)
    /\ boxes[boxes[1].children[2]].dimensions.height = Px(20)
    /\ boxes[boxes[1].children[1]].dimensions.y = boxes[1].dimensions.y
    /\ boxes[boxes[1].children[2]].dimensions.y = boxes[1].dimensions.y + Px(10)
    /\ boxes[boxes[1].children[3]].dimensions.y = boxes[1].dimensions.y + Px(30)

\* Styled node n is neither display: none nor below a display: none node.
RECURSIVE Visible(_)
Visible(n) ==
    /\ display(styled[n]) /= "DisplayNone"
    /\ styled[n].parent = 0 \/ Visible(styled[n].parent)

\* The visible nodes of the style tree, in pre-order.
RECURSIVE VisibleFrom(_)
VisibleFrom(n) ==
    IF n > Len(styled) THEN <<>>
    ELSE (IF Visible(n) THEN <<n>> ELSE <<>>) \o VisibleFrom(n + 1)

\* The style nodes of the non-anonymous boxes met by walk.
RECURSIVE NodesOf(_, _)
NodesOf(walk, k) ==
    IF k > Len(walk) THEN <<>>
    ELSE (IF IsAnonymous(walk[k]) THEN <<>> ELSE <<boxes[walk[k]].node>>)
         \o NodesOf(walk, k + 1)

\* C6: the non-anonymous boxes of the layout tree are, in pre-order, the
\* visible nodes of the style tree in pre-order, each once, and each box is
\* a block or an inline box as its node's display() says.
C6_BoxesMirrorVisibleNodes ==
    Built =>
        /\ Len(PreOrder(1)) = Len(boxes)
        /\ NodesOf(PreOrder(1), 1) = VisibleFrom(1)
        /\ \A b \in BoxIds :
              ~ IsAnonymous(b) =>
                  boxes[b].box_type =
                      (IF display(StyleOf(b)) = "Block" THEN "BlockNode" ELSE "InlineNode")

\* C6's case: a block root with an inline child, a display: none child and
\* a block node hidden below that one, built into a block box, an anonymous
\* box and an inline box.
C6_Witness ==
    /\ Built
    /\ Len(styled) = 4
    /\ \E n \in 1..4 : display(styled[n]) = "Block" /\ ~ Visible(n)
    /\ Len(boxes) = 3
    /\ IsBlock(1)
    /\ \E b \in BoxIds : IsAnonymous(b)
    /\ \E b \in BoxIds : boxes[b].box_type = "InlineNode"
    /\ NodesOf(PreOrder(1), 1) = VisibleFrom(1)
    /\ Len(VisibleFrom(1)) = 2

\* How far the call has got: the rank of lpc, the layout states the boxes
\* have gone through, the boxes layout_block was entered for, and the
\* children each box is done with.  It is at most 3 + 7 * Len(boxes).
OnStack(b) == \E k \in 1..Len(stack) : stack[k].box = b

ChildrenDoneWith(b) ==
    IF OnStack(b)
    THEN (CHOOSE f \in {stack[k] : k \in 1..Len(stack)} : f.box = b).i - 1
    ELSE IF LaidOut(b) THEN Len(boxes[b].children) ELSE 0

RECURSIVE ProgressOf(_)
ProgressOf(b) ==
    IF b = 0 THEN 0
    ELSE ProgressOf(b - 1) + Len(trace[b]) + ChildrenDoneWith(b)
         + (IF OnStack(b) \/ LaidOut(b) THEN 1 ELSE 0)

Progress ==
    (CASE lpc = "start" -> 0 [] lpc = "built" -> 1 [] lpc = "layout" -> 2 [] OTHER -> 3)
    + ProgressOf(Len(boxes))

\* The call has ended: it returned the tree, or failed.
Ended == lpc \in {"done", "failed"}

\* Some step of layout_tree can be taken: the conditions of the actions of
\* LayoutNext, which past these only assign.
CanStep ==
    \/ lpc = "start"
    \/ lpc = "built" /\ boxes /= <<>>
    \/ /\ lpc = "layout"
       /\ stack /= <<>>
       /\ \/ Top.pc \in {"width", "position", "height"}
          \/ Top.pc = "children" /\ Top.i <= Len(boxes[Top.box].children)
          \/ Top.pc = "children" /\ Top.i > Len(boxes[Top.box].children)
          \/ Top.pc = "return" /\ Len(stack) > 1
          \/ Top.pc = "return" /\ Len(stack) = 1

\* C7: layout_tree fails exactly when the root is display: none, with the
\* root's message and no tree; any other call returns the tree (it can
\* always take a next step, which takes it further, until it has returned),
\* and the failure of get_style_node on an anonymous box is never reached.
C7_FailsIffRootIsNone ==
    /\ [](/\ lpc = "failed" =>
                display(styled[1]) = "DisplayNone" /\ failure = RootMessage
          /\ (display(styled[1]) = "DisplayNone" /\ lpc /= "start") =>
                lpc = "failed" /\ boxes = <<>>
          /\ failure /= AnonymousMessage
          /\ ~ Ended => CanStep
          /\ lpc = "done" => boxes /= <<>> /\ stack = <<>> /\ failure = "")
    /\ [][Progress' > Progress /\ Progress' <= 3 + 7 * Len(boxes')]_vars

\* C7's case: a display: none root with children has made the call fail.
C7_Witness ==
    /\ lpc = "failed"
    /\ failure = RootMessage
    /\ Len(styled) > 1
    /\ display(styled[1]) = "DisplayNone"
    /\ boxes = <<>>

\* C8 as stated: every block box, wherever it sits, goes through the five
\* layout states once each and in order, and is height-resolved on return;
\* inline and anonymous boxes stay unlaid with zero dimensions.
C8_EveryBlockBoxLaidOut ==
    Built =>
        \A b \in BoxIds :
            /\ IsPrefix(trace[b], FullTrace)
            /\ ~ IsBlock(b) => trace[b] = <<"unlaid">> /\ boxes[b].dimensions = DefaultDimensions
            /\ (lpc = "done" /\ IsBlock(b)) => LaidOut(b)

\* C8, amended: the block boxes reached from the root through block boxes
\* only go through the five layout states once each and in order and are
\* height-resolved on return; every other box (inline, anonymous, or below
\* one) stays unlaid with zero dimensions.
C8_BlockPathBoxesLaidOutOnce ==
    Built =>
        \A b \in BoxIds :
            /\ IsPrefix(trace[b], FullTrace)
            /\ ~ BlockPath(b) => trace[b] = <<"unlaid">> /\ boxes[b].dimensions = DefaultDimensions
            /\ (lpc = "done" /\ BlockPath(b)) => LaidOut(b)

\* C8's case: on return a block box below an inline box is still unlaid,
\* while the block root is height-resolved.
C8_Witness ==
    /\ lpc = "done"
    /\ LaidOut(1)
    /\ \E b \in BoxIds :
          /\ IsBlock(b) /\ ~ BlockPath(b)
          /\ trace[b] = <<"unlaid">>
          /\ ExplicitHeight(b)
          /\ boxes[b].dimensions = DefaultDimensions

\* The next step adds child's height total to parent's running height.
Accumulates(child, parent) ==
    /\ lpc = "layout"
    /\ \/ /\ Top.pc = "return"
          /\ Len(stack) > 1
          /\ child = Top.box
          /\ parent = stack[Len(stack) - 1].box
       \/ /\ Top.pc = "children"
          /\ Top.i <= Len(boxes[Top.box].children)
          /\ child = boxes[Top.box].children[Top.i]
          /\ ~ IsBlock(child)
          /\ parent = Top.box

\* C10 as stated: the amount added for a child is its height plus twice its
\* top and bottom padding; margins and borders add nothing.
C10_AddsHeightAndPaddingTwice ==
    [][\A child \in BoxIds : \A parent \in BoxIds :
          Accumulates(child, parent) =>
              boxes'[parent].dimensions.height =
                  boxes[parent].dimensions.height
                  + boxes[child].dimensions.height
                  + 2 * (boxes[child].dimensions.padding.top
                         + boxes[child].dimensions.padding.bottom)]_vars

\* C10, amended: the amount added for a child is its height plus twice its
\* top and bottom padding plus its top and bottom border; its margins add
\* nothing.
C10_AddsHeightPaddingTwiceAndBorder ==
    [][\A child \in BoxIds : \A parent \in BoxIds :
          Accumulates(child, parent) =>
              boxes'[parent].dimensions.height =
                  boxes[parent].dimensions.height
                  + boxes[child].dimensions.height
                  + 2 * (boxes[child].dimensions.padding.top
                         + boxes[child].dimensions.padding.bottom)
                  + boxes[child].dimensions.border.top
                  + boxes[child].dimensions.border.bottom]_vars

\* C10's case: the first child, with padding 1px and 2px, borders 4px and
\* 8px and margins 16px and 32px, has just been laid out with height 0, and
\* its parent's running height is 2 * (1 + 2) + 4 + 8 = 18px.
C10_Witness ==
    /\ lpc = "layout"
    /\ Top.pc = "children"
    /\ Top.i = 2
    /\ LET c == boxes[Top.box].children[1]
       IN  /\ LaidOut(c)
           /\ boxes[c].dimensions.height = 0
           /\ boxes[c].dimensions.padding.top = Px(1)
           /\ boxes[c].dimensions.padding.bottom = Px(2)
           /\ boxes[c].dimensions.border.top = Px(4)
           /\ boxes[c].dimensions.border.bottom = Px(8)
           /\ boxes[c].dimensions.margin.top = Px(16)
           /\ boxes[c].dimensions.margin.bottom = Px(32)
    /\ boxes[Top.box].dimensions.height = Px(18)

\* C11: once a block box is laid out, of any two of its block children the
\* later one's content top is not above the earlier one's content bottom.
\* (Every height and vertical edge of the model is non-negative.)
C11_ChildBelowPreviousContent ==
    Built =>
        \A p \in BoxIds :
            (IsBlock(p) /\ LaidOut(p)) =>
                \A i \in 1..Len(boxes[p].children) : \A j \in 1..Len(boxes[p].children) :
                    LET a == boxes[p].children[i]
                        b == boxes[p].children[j]
                    IN  (i < j /\ IsBlock(a) /\ IsBlock(b)) =>
                            boxes[b].dimensions.y
                                >= boxes[a].dimensions.y + boxes[a].dimensions.height

\* The margin_box_height of the first k boxes of kids, summed in order.
RECURSIVE MarginBoxHeights(_, _)
MarginBoxHeights(kids, k) ==
    IF k = 0 THEN 0
    ELSE MarginBoxHeights(kids, k - 1) + margin_box_height(boxes[kids[k]].dimensions)

\* C12: a laid-out block box has the explicit length of its height property
\* when that is one, and otherwise the margin_box_height of its children,
\* summed; its block children sit below the summed margin_box_height of the
\* children before them, whatever its own height.
C12_ExplicitHeightOrChildrenSum ==
    Built =>
        \A b \in BoxIds :
            (IsBlock(b) /\ LaidOut(b)) =>
                /\ boxes[b].dimensions.height =
                      (IF ExplicitHeight(b)
                       THEN to_px(value(StyleOf(b), "height")[1])
                       ELSE MarginBoxHeights(boxes[b].children, Len(boxes[b].children)))
                /\ \A k \in 1..Len(boxes[b].children) :
                      LET c == boxes[b].children[k]
                      IN  IsBlock(c) =>
                              boxes[c].dimensions.y =
                                  boxes[b].dimensions.y
                                  + MarginBoxHeights(boxes[b].children, k - 1)
                                  + boxes[c].dimensions.margin.top
                                  + boxes[c].dimensions.border.top
                                  + boxes[c].dimensions.padding.top

\* C12's case: a root of height 10px whose first child, of height auto, has
\* taken its own child's 20px, and whose second child sits 38px below the
\* root's top, past the root's own height.
C12_Witness ==
    /\ lpc = "done"
    /\ ExplicitHeight(1)
    /\ boxes[1].dimensions.height = Px(10)
    /\ Len(boxes[1].children) = 2
    /\ LET a == boxes[1].children[1]
           b == boxes[1].children[2]
       IN  /\ IsBlock(a) /\ IsBlock(b)
           /\ value(StyleOf(a), "height") = Some(auto)
           /\ Len(boxes[a].children) = 1
           /\ boxes[a].dimensions.height = Px(20)
           /\ boxes[b].dimensions.y = boxes[1].dimensions.y + Px(38)

IsInline(b) == boxes[b].box_type = "InlineNode"

\* Styled node n is not display: none itself.
Shown(n) == display(styled[n]) /= "DisplayNone"

\* The style nodes hosted by the boxes kids from the k-th on, in order: a
\* block box hosts its own node, an anonymous box those of its children.
RECURSIVE Hosted(_, _)
Hosted(kids, k) ==
    IF k > Len(kids) THEN <<>>
    ELSE (IF IsAnonymous(kids[k])
          THEN [i \in 1..Len(boxes[kids[k]].children) |->
                    boxes[boxes[kids[k]].children[i]].node]
          ELSE <<boxes[kids[k]].node>>)
         \o Hosted(kids, k + 1)

\* C13: the children of a block box are block and anonymous boxes, no two
\* anonymous ones next to each other, and host the shown children of its
\* node in order; an anonymous box is a child of a block box and has
\* children, all of them inline boxes.
C13_InlineRunsInOneAnonymousBox ==
    Built =>
        \A b \in BoxIds :
            /\ IsBlock(b) =>
                  LET kids == boxes[b].children
                  IN  /\ \A k \in 1..Len(kids) : IsBlock(kids[k]) \/ IsAnonymous(kids[k])
                      /\ \A k \in 1..(Len(kids) - 1) :
                            ~ (IsAnonymous(kids[k]) /\ IsAnonymous(kids[k + 1]))
                      /\ Hosted(kids, 1)
                            = SelectSeq(style_children(styled, boxes[b].node), Shown)
            /\ IsAnonymous(b) =>
                  /\ ParentBox(b) /= 0
                  /\ IsBlock(ParentBox(b))
                  /\ boxes[b].children /= <<>>
                  /\ \A k \in 1..Len(boxes[b].children) : IsInline(boxes[b].children[k])

\* C13's case: a block root with two inline children and then a block one,
\* built into one anonymous box holding both inline boxes, and a block box.
C13_Witness ==
    /\ Built
    /\ Len(styled) = 4
    /\ IsBlock(1)
    /\ Len(boxes[1].children) = 2
    /\ IsAnonymous(boxes[1].children[1])
    /\ Len(boxes[boxes[1].children[1]].children) = 2
    /\ IsBlock(boxes[1].children[2])
    /\ Hosted(boxes[1].children, 1) = <<2, 3, 4>>

-----------------------------------------------------------------------------
(* Claims about match_rule (SpecMatch)                                     *)

\* Selector number i of rule r matches the node.
Matching(r, i) == matches(node, stylesheet[r].selectors[i])

\* Selector number i of rule r is its first one, in the order of its
\* selector sequence, that matches the node.
FirstMatching(r, i) == Matching(r, i) /\ \A j \in 1..(i - 1) : ~ Matching(r, j)

\* C14: a rule none of whose selectors matches the element is not among the
\* matched rules; any other is, once, paired with the specificity of its
\* first matching selector in sequence order, whatever the specificity of
\* its later selectors; and the matched rules are applied in the order of
\* these paired specificities.
C14_FirstMatchingSelectorPairs ==
    Styled =>
        /\ \A r \in 1..Len(stylesheet) :
              LET n == Len(stylesheet[r].selectors)
              IN  /\ (\A i \in 1..n : ~ Matching(r, i)) => PlaceOf(r) = 0
                  /\ \A i \in 1..n :
                        FirstMatching(r, i) =>
                            /\ PlaceOf(r) > 0
                            /\ PairedWith(r) = specificity(stylesheet[r].selectors[i])
                            /\ \A k \in 1..Len(rules) : rules[k].rule = r => k = PlaceOf(r)
        /\ \A k \in 1..(Len(rules) - 1) :
              ~ SpecLess(rules[k + 1].specificity, rules[k].specificity)

\* C14's case: the rule `div, #a` (in this order) matches div#a.b.c by its
\* first selector and is paired with (0, 0, 1) although its second selector
\* matches too; it is applied before a `.b` rule, whose colour wins.
C14_Witness ==
    /\ Styled
    /\ Len(stylesheet) = 2
    /\ Len(stylesheet[2].selectors) = 2
    /\ Matching(2, 1) /\ Matching(2, 2)
    /\ SpecLess(specificity(stylesheet[2].selectors[1]),
                specificity(stylesheet[2].selectors[2]))
    /\ PairedWith(2) = <<0, 0, 1>>
    /\ PlaceOf(1) = 2 /\ PlaceOf(2) = 1
    /\ PairedWith(1) = <<0, 1, 0>>
    /\ DeclaredValue(1, "color") = Red
    /\ DeclaredValue(2, "color") = Blue
    /\ specified_values["color"] = Red

-----------------------------------------------------------------------------
(* Claims about the stored widths (SpecWidth)                              *)

\* C15: after calculate_block_width the stored left margin, border and
\* padding, the width, and the right padding, border and margin add up to
\* the width of the containing block.
C15_HorizontalSumIsContainerWidth ==
    WidthDone =>
        wdims.margin.left
        + Fine(wdims.border.left + wdims.padding.left + wdims.width
               + wdims.padding.right + wdims.border.right)
        + wdims.margin.right
            = Fine(wcb.width)

\* C15's case: width 99.5px with `margin: auto` and a keyword border width
\* in an 800px container: both margins are read as auto and get 350.25px
\* each.
C15_Witness ==
    /\ WidthDone
    /\ wcb.width = Px(800)
    /\ value(wstyle, "margin") = Some(auto)
    /\ value(wstyle, "margin-left") = None
    /\ value(wstyle, "border-width") = Some(Keyword("thin"))
    /\ wdims.width = Px(100) - 1
    /\ wdims.margin.left = Fine(Px(350)) + 1
    /\ wdims.margin.right = Fine(Px(350)) + 1
    /\ wdims.border.left + wdims.padding.left = 0
    /\ wdims.border.right + wdims.padding.right = 0

====
